---- MODULE Spec2Model ----
(***************************************************************************)
(* A model of src/src/future.rs of futures-lite: the combinators           *)
(* PollOnce, YieldNow, Zip, TryZip, Race and `or`, and the blocking driver  *)
(* block_on with its per-thread cached parker and waker.                    *)
(*                                                                          *)
(* Spec polls one combinator built over leaf futures, one action per       *)
(* poll() implementation.  SpecBlockOn runs block_on on one thread, with   *)
(* wakes delivered by other threads; SpecNested adds futures that call     *)
(* block_on inside their poll; SpecCount is SpecBlockOn with the wake      *)
(* calls made on the running call's waker counted.  The Fair               *)
(* specifications add the fairness of the thread and of the threads that   *)
(* owe a wake.                                                              *)
(***************************************************************************)
EXTENDS Integers, Sequences, FiniteSets, TLC

\* ------------------------------------------------------------------ bounds

\* The largest number of Pending results a completing leaf future returns.
MaxPending == 2
\* The largest number of poll() calls made on one combinator.
MaxPolls == 4

\* The values futures complete with.
Vals == {1, 2}

\* ------------------------------------------------------------ Rust values

\* Option<T>
None == [some |-> FALSE]
Some(x) == [some |-> TRUE, v |-> x]
is_none(o) == ~o.some
is_some(o) == o.some

\* Result<T, E>
Ok(t) == [ok |-> TRUE, v |-> t]
Err(e) == [ok |-> FALSE, v |-> e]

\* The unit value ().
Unit == 0

\* Poll<T>
Pending == [ready |-> FALSE]
Ready(x) == [ready |-> TRUE, val |-> x]

\* --------------------------------------------------------- leaf futures

\* A child future handed to a combinator: it returns Pending `left` more
\* times and then Ready(out); pending() never completes.  `done` records
\* that it has returned Ready, `polls` how often it has been polled, and
\* `repolled` that it was polled again after it had returned Ready.
Leaf(n, x) ==
    [kind |-> "Leaf", left |-> n, never |-> FALSE, out |-> x, done |-> FALSE,
     polls |-> 0, repolled |-> FALSE]
ready(val) == Leaf(0, val)
pending ==
    [kind |-> "Leaf", left |-> 0, never |-> TRUE, out |-> 0, done |-> FALSE,
     polls |-> 0, repolled |-> FALSE]

\* One poll of a leaf future: the new future, what the poll returned, and
\* `reg`, the number of wake calls the future now owes the context's waker
\* (one for a Pending of a future that will complete, none for pending()).
LeafPoll(f) ==
    IF f.done
    THEN [fut |-> [f EXCEPT !.polls = @ + 1, !.repolled = TRUE], ret |-> Pending,
          reg |-> 0]
    ELSE IF f.never
    THEN [fut |-> [f EXCEPT !.polls = @ + 1], ret |-> Pending, reg |-> 0]
    ELSE IF f.left > 0
    THEN [fut |-> [f EXCEPT !.polls = @ + 1, !.left = @ - 1], ret |-> Pending,
          reg |-> 1]
    ELSE [fut |-> [f EXCEPT !.polls = @ + 1, !.done = TRUE], ret |-> Ready(f.out),
          reg |-> 0]

\* What one poll() call of a combinator yields: the combinator afterwards,
\* the value returned, the children polled in this call in the order they
\* were polled, the wake calls made inside the call, and the number of
\* wake calls its children owe the context's waker after it.
PollOut(this, r, ord, w, p) ==
    [fut |-> this, ret |-> r, order |-> ord, wakes |-> w, pend |-> p]

\* --------------------------------------------------------------- PollOnce

poll_once(f) == [kind |-> "PollOnce", f |-> f]

\* PollOnce::poll that hands the child's Pending on to its caller.
PollOncePoll_Forward(this) ==
    LET r == LeafPoll(this.f)
        next == [this EXCEPT !.f = r.fut]
    IN  IF r.ret.ready
        THEN PollOut(next, Ready(Some(r.ret.val)), <<1>>, 0, 0)
        ELSE PollOut(next, Pending, <<1>>, 0, r.reg)

\* PollOnce::poll that polls the child a second time when it is Pending.
PollOncePoll_Twice(this) ==
    LET r == LeafPoll(this.f)
        q == LeafPoll(r.fut)
    IN  IF r.ret.ready
        THEN PollOut([this EXCEPT !.f = r.fut], Ready(Some(r.ret.val)), <<1>>, 0, 0)
        ELSE IF q.ret.ready
        THEN PollOut([this EXCEPT !.f = q.fut], Ready(Some(q.ret.val)), <<1, 1>>, 0, 0)
        ELSE PollOut([this EXCEPT !.f = q.fut], Ready(None), <<1, 1>>, 0, q.reg)

PollOncePoll(this) ==
    LET r == LeafPoll(this.f)
        next == [this EXCEPT !.f = r.fut]
    IN  IF r.ret.ready
        THEN PollOut(next, Ready(Some(r.ret.val)), <<1>>, 0, 0)
        ELSE PollOut(next, Ready(None), <<1>>, 0, r.reg)

\* --------------------------------------------------------------- YieldNow

\* YieldNow(bool): the field .0 is `fired`.
yield_now == [kind |-> "YieldNow", fired |-> FALSE]

\* YieldNow::poll without the call of cx.waker().wake_by_ref().
YieldNowPoll_NoWake(this) ==
    IF ~this.fired
    THEN PollOut([this EXCEPT !.fired = TRUE], Pending, <<>>, 0, 0)
    ELSE PollOut(this, Ready(Unit), <<>>, 0, 0)

YieldNowPoll(this) ==
    IF ~this.fired
    THEN PollOut([this EXCEPT !.fired = TRUE], Pending, <<>>, 1, 0)
    ELSE PollOut(this, Ready(Unit), <<>>, 0, 0)

\* ----------------------------------------------------------------- TryZip

try_zip(future1, future2) ==
    [kind |-> "TryZip", future1 |-> future1, output1 |-> None,
     future2 |-> future2, output2 |-> None]

\* The first `if` of TryZip::poll storing an error in the slot, as it stores
\* a success, instead of returning it.
TryZipFirst_StoreErr(this) ==
    IF is_none(this.output1)
    THEN LET r == LeafPoll(this.future1)
             polled == [this EXCEPT !.future1 = r.fut]
         IN  IF r.ret.ready
             THEN [this |-> [polled EXCEPT !.output1 = Some(r.ret.val)],
                   stop |-> FALSE, ret |-> Pending, order |-> <<1>>, pend |-> 0]
             ELSE [this |-> polled, stop |-> FALSE, ret |-> Pending,
                   order |-> <<1>>, pend |-> r.reg]
    ELSE [this |-> this, stop |-> FALSE, ret |-> Pending, order |-> <<>>, pend |-> 0]

\* The first `if` of TryZip::poll.  `stop` is the early return.
TryZipFirst(this) ==
    IF is_none(this.output1)
    THEN LET r == LeafPoll(this.future1)
             polled == [this EXCEPT !.future1 = r.fut]
         IN  IF r.ret.ready
             THEN IF r.ret.val.ok
                  THEN [this |-> [polled EXCEPT !.output1 = Some(Ok(r.ret.val.v))],
                        stop |-> FALSE, ret |-> Pending, order |-> <<1>>, pend |-> 0]
                  ELSE [this |-> polled, stop |-> TRUE,
                        ret |-> Ready(Err(r.ret.val.v)), order |-> <<1>>, pend |-> 0]
             ELSE [this |-> polled, stop |-> FALSE, ret |-> Pending,
                   order |-> <<1>>, pend |-> r.reg]
    ELSE [this |-> this, stop |-> FALSE, ret |-> Pending, order |-> <<>>, pend |-> 0]

\* The second `if` of TryZip::poll storing an error in the slot, as it
\* stores a success, instead of returning it.
TryZipSecond_StoreErr(this) ==
    IF is_none(this.output2)
    THEN LET r == LeafPoll(this.future2)
             polled == [this EXCEPT !.future2 = r.fut]
         IN  IF r.ret.ready
             THEN [this |-> [polled EXCEPT !.output2 = Some(r.ret.val)],
                   stop |-> FALSE, ret |-> Pending, order |-> <<2>>, pend |-> 0]
             ELSE [this |-> polled, stop |-> FALSE, ret |-> Pending,
                   order |-> <<2>>, pend |-> r.reg]
    ELSE [this |-> this, stop |-> FALSE, ret |-> Pending, order |-> <<>>, pend |-> 0]

\* The second `if` of TryZip::poll without its test of output2.
TryZipSecond_Always(this) ==
    LET r == LeafPoll(this.future2)
        polled == [this EXCEPT !.future2 = r.fut]
    IN  IF r.ret.ready
        THEN IF r.ret.val.ok
             THEN [this |-> [polled EXCEPT !.output2 = Some(Ok(r.ret.val.v))],
                   stop |-> FALSE, ret |-> Pending, order |-> <<2>>, pend |-> 0]
             ELSE [this |-> polled, stop |-> TRUE,
                   ret |-> Ready(Err(r.ret.val.v)), order |-> <<2>>, pend |-> 0]
        ELSE [this |-> polled, stop |-> FALSE, ret |-> Pending,
              order |-> <<2>>, pend |-> r.reg]

\* The second `if` of TryZip::poll.
TryZipSecond(this) ==
    IF is_none(this.output2)
    THEN LET r == LeafPoll(this.future2)
             polled == [this EXCEPT !.future2 = r.fut]
         IN  IF r.ret.ready
             THEN IF r.ret.val.ok
                  THEN [this |-> [polled EXCEPT !.output2 = Some(Ok(r.ret.val.v))],
                        stop |-> FALSE, ret |-> Pending, order |-> <<2>>, pend |-> 0]
                  ELSE [this |-> polled, stop |-> TRUE,
                        ret |-> Ready(Err(r.ret.val.v)), order |-> <<2>>, pend |-> 0]
             ELSE [this |-> polled, stop |-> FALSE, ret |-> Pending,
                   order |-> <<2>>, pend |-> r.reg]
    ELSE [this |-> this, stop |-> FALSE, ret |-> Pending, order |-> <<>>, pend |-> 0]

\* The poll does not return: unreachable!() panics in map_err.
Unreachable == [ready |-> FALSE, panic |-> TRUE]

\* The final `if` returning the pair with the right value first.
TryZipFinish_Swapped(this) ==
    IF is_some(this.output1) /\ is_some(this.output2)
    THEN [this |-> [this EXCEPT !.output1 = None, !.output2 = None],
          ret |-> IF this.output1.v.ok /\ this.output2.v.ok
                  THEN Ready(Ok(<<this.output2.v.v, this.output1.v.v>>))
                  ELSE Unreachable]
    ELSE [this |-> this, ret |-> Pending]

\* The final `if`: both slots filled, take them, unwrap the two successes
\* (a slot holding an error reaches unreachable!()) and return the pair.
TryZipFinish(this) ==
    IF is_some(this.output1) /\ is_some(this.output2)
    THEN [this |-> [this EXCEPT !.output1 = None, !.output2 = None],
          ret |-> IF this.output1.v.ok /\ this.output2.v.ok
                  THEN Ready(Ok(<<this.output1.v.v, this.output2.v.v>>))
                  ELSE Unreachable]
    ELSE [this |-> this, ret |-> Pending]

\* TryZip::poll with the two first `if`s in the other order: future2 is
\* polled before future1.
TryZipPoll_RightFirst(this) ==
    LET a == TryZipSecond(this)
    IN  IF a.stop
        THEN PollOut(a.this, a.ret, a.order, 0, a.pend)
        ELSE LET b == TryZipFirst(a.this)
             IN  IF b.stop
                 THEN PollOut(b.this, b.ret, a.order \o b.order, 0, a.pend + b.pend)
                 ELSE LET c == TryZipFinish(b.this)
                      IN  PollOut(c.this, c.ret, a.order \o b.order, 0,
                                  a.pend + b.pend)

TryZipPoll(this) ==
    LET a == TryZipFirst(this)
    IN  IF a.stop
        THEN PollOut(a.this, a.ret, a.order, 0, a.pend)
        ELSE LET b == TryZipSecond(a.this)
             IN  IF b.stop
                 THEN PollOut(b.this, b.ret, a.order \o b.order, 0, a.pend + b.pend)
                 ELSE LET c == TryZipFinish(b.this)
                      IN  PollOut(c.this, c.ret, a.order \o b.order, 0,
                                  a.pend + b.pend)

\* ------------------------------------------------------------------- Race

race(future1, future2) ==
    [kind |-> "Race", future1 |-> future1, future2 |-> future2]

\* Race::poll that polls only the child chosen first.
RacePoll_FirstOnly(this, b) ==
    IF b
    THEN LET r1 == LeafPoll(this.future1)
             s1 == [this EXCEPT !.future1 = r1.fut]
         IN  IF r1.ret.ready
             THEN PollOut(s1, Ready(r1.ret.val), <<1>>, 0, 0)
             ELSE PollOut(s1, Pending, <<1>>, 0, r1.reg)
    ELSE LET r2 == LeafPoll(this.future2)
             s2 == [this EXCEPT !.future2 = r2.fut]
         IN  IF r2.ret.ready
             THEN PollOut(s2, Ready(r2.ret.val), <<2>>, 0, 0)
             ELSE PollOut(s2, Pending, <<2>>, 0, r2.reg)

\* Race::poll whose second branch does not return the Ready of the child
\* it polls second.
RacePoll_Lose(this, b) ==
    IF b
    THEN LET r1 == LeafPoll(this.future1)
             s1 == [this EXCEPT !.future1 = r1.fut]
         IN  IF r1.ret.ready
             THEN PollOut(s1, Ready(r1.ret.val), <<1>>, 0, 0)
             ELSE LET r2 == LeafPoll(s1.future2)
                      s2 == [s1 EXCEPT !.future2 = r2.fut]
                  IN  IF r2.ret.ready
                      THEN PollOut(s2, Ready(r2.ret.val), <<1, 2>>, 0, r1.reg)
                      ELSE PollOut(s2, Pending, <<1, 2>>, 0, r1.reg + r2.reg)
    ELSE LET r2 == LeafPoll(this.future2)
             s2 == [this EXCEPT !.future2 = r2.fut]
         IN  IF r2.ret.ready
             THEN PollOut(s2, Ready(r2.ret.val), <<2>>, 0, 0)
             ELSE LET r1 == LeafPoll(s2.future1)
                      s1 == [s2 EXCEPT !.future1 = r1.fut]
                  IN  PollOut(s1, Pending, <<2, 1>>, 0, r2.reg + r1.reg)

\* Race::poll that always polls future1 first.
RacePoll_Fixed(this, b) ==
    LET r1 == LeafPoll(this.future1)
        s1 == [this EXCEPT !.future1 = r1.fut]
    IN  IF r1.ret.ready
        THEN PollOut(s1, Ready(r1.ret.val), <<1>>, 0, 0)
        ELSE LET r2 == LeafPoll(s1.future2)
                 s2 == [s1 EXCEPT !.future2 = r2.fut]
             IN  IF r2.ret.ready
                 THEN PollOut(s2, Ready(r2.ret.val), <<1, 2>>, 0, r1.reg)
                 ELSE PollOut(s2, Pending, <<1, 2>>, 0, r1.reg + r2.reg)

\* Race::poll; `b` is the value fastrand::bool() returned in this call.
RacePoll(this, b) ==
    IF b
    THEN LET r1 == LeafPoll(this.future1)
             s1 == [this EXCEPT !.future1 = r1.fut]
         IN  IF r1.ret.ready
             THEN PollOut(s1, Ready(r1.ret.val), <<1>>, 0, 0)
             ELSE LET r2 == LeafPoll(s1.future2)
                      s2 == [s1 EXCEPT !.future2 = r2.fut]
                  IN  IF r2.ret.ready
                      THEN PollOut(s2, Ready(r2.ret.val), <<1, 2>>, 0, r1.reg)
                      ELSE PollOut(s2, Pending, <<1, 2>>, 0, r1.reg + r2.reg)
    ELSE LET r2 == LeafPoll(this.future2)
             s2 == [this EXCEPT !.future2 = r2.fut]
         IN  IF r2.ret.ready
             THEN PollOut(s2, Ready(r2.ret.val), <<2>>, 0, 0)
             ELSE LET r1 == LeafPoll(s2.future1)
                      s1 == [s2 EXCEPT !.future1 = r1.fut]
                  IN  IF r1.ret.ready
                      THEN PollOut(s1, Ready(r1.ret.val), <<2, 1>>, 0, r2.reg)
                      ELSE PollOut(s1, Pending, <<2, 1>>, 0, r2.reg + r1.reg)

\* --------------------------------------------------------------------- Or

\* Or::new(future1, future2) of futures_micro.
OrNew(future1, future2) ==
    [kind |-> "Or", future1 |-> future1, future2 |-> future2]

\* Or::poll of futures_micro: the left-biased choice.
OrPoll(this) ==
    LET r1 == LeafPoll(this.future1)
        s1 == [this EXCEPT !.future1 = r1.fut]
    IN  IF r1.ret.ready
        THEN PollOut(s1, Ready(r1.ret.val), <<1>>, 0, 0)
        ELSE LET r2 == LeafPoll(s1.future2)
                 s2 == [s1 EXCEPT !.future2 = r2.fut]
             IN  IF r2.ret.ready
                 THEN PollOut(s2, Ready(r2.ret.val), <<1, 2>>, 0, r1.reg)
                 ELSE PollOut(s2, Pending, <<1, 2>>, 0, r1.reg + r2.reg)

\* FutureExt::or passing its arguments to Or::new in the wrong order.
or_Swapped(self, other) == OrNew(other, self)

\* FutureExt::or: self.or(other)
or(self, other) == OrNew(self, other)

\* -------------------------------------------------------------------- Zip

\* Zip::new(future1, future2) of futures_micro: both slots empty.
ZipNew(future1, future2) ==
    [kind |-> "Zip", future1 |-> future1, output1 |-> None,
     future2 |-> future2, output2 |-> None]

\* Zip::poll of futures_micro: poll each child whose slot is empty, left
\* then right, store what completes, and return the pair once both slots
\* are filled.
ZipPoll(this) ==
    LET r1 == LeafPoll(this.future1)
        a == IF is_none(this.output1)
             THEN [this |-> [this EXCEPT !.future1 = r1.fut,
                                         !.output1 = IF r1.ret.ready
                                                     THEN Some(r1.ret.val) ELSE None],
                   order |-> <<1>>, pend |-> r1.reg]
             ELSE [this |-> this, order |-> <<>>, pend |-> 0]
        r2 == LeafPoll(a.this.future2)
        b == IF is_none(a.this.output2)
             THEN [this |-> [a.this EXCEPT !.future2 = r2.fut,
                                           !.output2 = IF r2.ret.ready
                                                       THEN Some(r2.ret.val) ELSE None],
                   order |-> <<2>>, pend |-> r2.reg]
             ELSE [this |-> a.this, order |-> <<>>, pend |-> 0]
    IN  IF is_some(b.this.output1) /\ is_some(b.this.output2)
        THEN PollOut([b.this EXCEPT !.output1 = None, !.output2 = None],
                     Ready(<<b.this.output1.v, b.this.output2.v>>),
                     a.order \o b.order, 0, a.pend + b.pend)
        ELSE PollOut(b.this, Pending, a.order \o b.order, 0, a.pend + b.pend)

\* zip passing its arguments to Zip::new in the wrong order.
zip_Swapped(future1, future2) == ZipNew(future2, future1)

\* zip(future1, future2)
zip(future1, future2) == ZipNew(future1, future2)

\* ------------------------------------------------ polling one combinator

VARIABLES
    comb,     \* the combinator under poll (a PollOnce, YieldNow, Zip, TryZip, Race or Or)
    prev,     \* the combinator as it was before its latest poll() call
    ret,      \* what the latest poll() call returned
    order,    \* the children polled in the latest call, in polling order
    wakes,    \* the wake calls made on the context's waker in the latest call
    npolls,   \* the number of poll() calls made so far
    nwakes    \* the number of wake calls made so far

cvars == <<comb, prev, ret, order, wakes, npolls, nwakes>>

\* The leaf futures with outputs in S, and the one that never completes.
Leaves(S) == {Leaf(n, x) : n \in 0..MaxPending, x \in S} \cup {pending}

\* Result<T, E> outputs of the children of a TryZip.
Results == {Ok(t) : t \in Vals} \cup {Err(e) : e \in Vals}

\* The combinators as their constructors return them.
Constructed ==
    {poll_once(f) : f \in Leaves(Vals \cup {42})}
    \cup {yield_now}
    \cup {try_zip(f1, f2) : f1 \in Leaves(Results), f2 \in Leaves(Results)}
    \cup {race(f1, f2) : f1 \in Leaves(Vals), f2 \in Leaves(Vals)}
    \cup {or(f1, f2) : f1 \in Leaves(Vals), f2 \in Leaves(Vals)}
    \cup {zip(f1, f2) : f1 \in Leaves(Vals), f2 \in Leaves(Vals)}

\* The combinator has returned Ready: it must not be polled again.
Finished == npolls > 0 /\ ret.ready

CombInit ==
    /\ comb \in Constructed
    /\ prev = comb
    /\ ret = Pending
    /\ order = <<>>
    /\ wakes = 0
    /\ npolls = 0
    /\ nwakes = 0

\* The caller polls the combinator once; `r` is what that poll yields.
Polled(r) ==
    /\ prev' = comb
    /\ comb' = r.fut
    /\ ret' = r.ret
    /\ order' = r.order
    /\ wakes' = r.wakes
    /\ npolls' = npolls + 1
    /\ nwakes' = nwakes + r.wakes

CanPoll(k) == comb.kind = k /\ ~Finished /\ npolls < MaxPolls

PollPollOnce == CanPoll("PollOnce") /\ Polled(PollOncePoll(comb))

PollYieldNow == CanPoll("YieldNow") /\ Polled(YieldNowPoll(comb))

PollTryZip == CanPoll("TryZip") /\ Polled(TryZipPoll(comb))

PollRace == CanPoll("Race") /\ \E b \in BOOLEAN : Polled(RacePoll(comb, b))

PollOr == CanPoll("Or") /\ Polled(OrPoll(comb))

PollZip == CanPoll("Zip") /\ Polled(ZipPoll(comb))

\* --------------------------------------------------------------- block_on

\* The deepest nesting of block_on calls on the thread.
MaxDepth == 2
\* The largest number of Pending results of a future that calls block_on in
\* its poll, and of the future that nested call is made with.
MaxSuspend == 1

VARIABLES
    stack,     \* the thread's running block_on calls, the outermost first
    parkers,   \* the state of each Parker: "EMPTY", "NOTIFIED" or "PARKED"
    borrowed,  \* the RefCell of CACHE is mutably borrowed
    owed,      \* per parker: another thread holds its waker and will call wake
    last,      \* the return of block_on, if that was the thread's latest step
    handed,    \* the waker of CACHE has been handed to a future
    stale      \* the token of CACHE's parker was left by a wake call made
               \* while no block_on call was running, and by no other

bvars == <<stack, parkers, borrowed, owed, last, handed, stale>>

\* The wake calls made on the waker of the running outermost call, counted
\* by SpecCount alone: `total` since the call was entered, `since` since
\* the call last took the token, and `taken`, the tokens the call has
\* taken.  A token found on entry counts as the wake call that left it.
VARIABLE wk

vars == <<comb, prev, ret, order, wakes, npolls, nwakes,
          stack, parkers, borrowed, owed, last, handed, stale, wk>>

\* What a step of block_on leaves alone where wake calls are not counted.
uncounted == <<cvars, wk>>

NoWakes == [since |-> 0, total |-> 0, taken |-> 0]

\* Parker 0 is the one of the thread's CACHE; parker d is the fresh one a
\* call nested at depth d + 1 creates.
ParkerIds == 0..(MaxDepth - 1)
CachedParker == 0

\* Parker::new() of the parking crate.
ParkerNew == "EMPTY"

\* Unparker::unpark(): leave the token; a thread blocked in park() wakes up.
unpark(st) == "NOTIFIED"

\* Parker::park() as it is called: with the token there it takes the token
\* and returns at once, otherwise the thread blocks.
park(st) ==
    IF st = "NOTIFIED"
    THEN [state |-> "EMPTY", blocks |-> FALSE]
    ELSE [state |-> "PARKED", blocks |-> TRUE]

\* A waker whose closure does not unpark.
waker_Lost(ps, p) == ps

\* The waker parker_and_waker() builds for parker p: waker_fn(move || {
\* unparker.unpark(); }).  `ps` is the state of all parkers.
waker(ps, p) == [ps EXCEPT ![p] = unpark(@)]

\* A borrow of CACHE that succeeds while CACHE is borrowed.
try_borrow_mut_Always(b) == TRUE

\* cache.try_borrow_mut() succeeds when CACHE is not borrowed.
try_borrow_mut(b) == ~b

\* block_on using the cached parker and waker in a nested call too.
block_on_parker_Cached(b, depth) == CachedParker

\* The parker a block_on call entered with `depth` calls already running
\* uses: the cached one, or a fresh one when the cache is in use.
block_on_parker(b, depth) ==
    IF try_borrow_mut(b) THEN CachedParker ELSE depth

\* One poll of the future block_on drives.
Poll(fut, b) ==
    CASE fut.kind = "Leaf" ->
            LET r == LeafPoll(fut) IN PollOut(r.fut, r.ret, <<>>, 0, r.reg)
      [] fut.kind = "YieldNow" -> YieldNowPoll(fut)
      [] fut.kind = "Race" -> RacePoll(fut, b)
      [] fut.kind = "TryZip" -> TryZipPoll(fut)
      [] fut.kind = "Or" -> OrPoll(fut)
      [] fut.kind = "PollOnce" -> PollOncePoll(fut)

\* The futures block_on is called with: each completes after finitely many
\* polls and has a wake follow every Pending.
Computations ==
    {Leaf(n, x) : n \in 0..MaxPending, x \in Vals}
    \cup {yield_now}
    \cup {race(f1, f2) : f1 \in {Leaf(n, 1) : n \in 0..MaxPending},
                         f2 \in {Leaf(n, 2) : n \in 0..MaxPending}}
    \cup {race(ready(1), pending), race(pending, ready(2))}

\* The futures whose poll calls block_on, and the futures that nested
\* block_on is called with.
Outer == {Leaf(n, 1) : n \in 0..MaxSuspend}
Inner == {Leaf(n, 2) : n \in 0..MaxSuspend} \cup {yield_now}

Top == stack[Len(stack)]

SetTop(f) == [stack EXCEPT ![Len(stack)] = f]

Frame(fut, p, c) ==
    [future |-> fut, parker |-> p, cached |-> c, pc |-> "poll",
     registered |-> FALSE, polls |-> 0]

BlockOnInit ==
    /\ stack = <<>>
    /\ parkers = [p \in ParkerIds |-> ParkerNew]
    /\ borrowed = FALSE
    /\ owed = [p \in ParkerIds |-> FALSE]
    /\ last = [depth |-> 0]
    /\ handed = FALSE
    /\ stale = FALSE

\* block_on(future), lines 61-87 and 96-100: pick the parker and waker.
Enter(fut, under) ==
    LET p == block_on_parker(borrowed, Len(under))
        c == try_borrow_mut(borrowed)
    IN  /\ stack' = Append(under, Frame(fut, p, c))
        /\ borrowed' = (borrowed \/ c)
        /\ parkers' = IF p = CachedParker THEN parkers
                      ELSE [parkers EXCEPT ![p] = ParkerNew]

\* The thread calls block_on from outside any future, with a future of S.
CallTop(S) ==
    /\ stack = <<>>
    /\ \E fut \in S : Enter(fut, stack)
    /\ last' = [depth |-> 0]
    /\ UNCHANGED <<owed, handed, stale>>

\* The future being polled calls block_on inside its poll.  Before that it
\* may have handed its waker to another thread (`reg`).
CallNested ==
    /\ stack # <<>>
    /\ Top.pc = "poll"
    /\ Top.future.kind = "Leaf"
    /\ Len(stack) < MaxDepth
    /\ \E fut \in Inner, reg \in BOOLEAN :
          /\ Enter(fut, SetTop([Top EXCEPT !.pc = "inpoll", !.registered = reg]))
          /\ owed' = IF reg THEN [owed EXCEPT ![Top.parker] = TRUE] ELSE owed
    /\ handed' = TRUE
    /\ last' = [depth |-> 0]
    /\ UNCHANGED stale

\* Poll::Ready(output) => return output: the call ends, and the borrow of
\* CACHE or the fresh parker and waker are dropped.  A wake call on a waker
\* of a dropped parker has no effect.
Return(f, r) ==
    /\ stack' = SubSeq(stack, 1, Len(stack) - 1)
    /\ last' = [depth |-> Len(stack), val |-> r.ret.val, future |-> r.fut,
                polls |-> f.polls + 1]
    /\ borrowed' = IF f.cached THEN FALSE ELSE borrowed
    /\ parkers' = IF f.parker = CachedParker THEN parkers
                  ELSE [parkers EXCEPT ![f.parker] = ParkerNew]
    /\ owed' = IF f.parker = CachedParker THEN owed
               ELSE [owed EXCEPT ![f.parker] = FALSE]
    /\ UNCHANGED stale

\* The wake calls made on the Context's waker inside a poll that returned
\* Pending with result r: those of the future itself, and those of the
\* children that owe a wake and do not leave it to another thread.
WakesInside(f, r, later) ==
    r.wakes + (IF r.pend > 0 /\ ~f.registered /\ ~later THEN r.pend ELSE 0)

\* A loop whose Context does not hold the parker's waker: a wake call made
\* inside the poll does not reach the parker.
Suspend_NoContext(f, r, later) ==
    LET due == r.pend > 0 /\ ~f.registered
    IN  /\ later => due
        /\ stack' = SetTop([f EXCEPT !.future = r.fut, !.pc = "park",
                                     !.registered = FALSE, !.polls = @ + 1])
        /\ parkers' = parkers
        /\ owed' = IF later THEN [owed EXCEPT ![f.parker] = TRUE] ELSE owed
        /\ last' = [depth |-> 0]
        /\ UNCHANGED <<borrowed, stale>>

\* Poll::Pending: the loop goes on to parker.park().  A future that owes
\* a wake (r.pend > 0) and has not handed its waker out earlier in this
\* poll either calls wake inside the poll or leaves the waker with another
\* thread (`later`).
Suspend(f, r, later) ==
    LET due == r.pend > 0 /\ ~f.registered
        inside == WakesInside(f, r, later) > 0
    IN  /\ later => due
        /\ stack' = SetTop([f EXCEPT !.future = r.fut, !.pc = "park",
                                     !.registered = FALSE, !.polls = @ + 1])
        /\ parkers' = IF inside THEN waker(parkers, f.parker) ELSE parkers
        /\ owed' = IF later THEN [owed EXCEPT ![f.parker] = TRUE] ELSE owed
        /\ last' = [depth |-> 0]
        /\ stale' = (stale /\ ~(inside /\ f.parker = CachedParker))
        /\ UNCHANGED borrowed

\* future.as_mut().poll(cx), lines 90-93 and 104-107, with fastrand::bool()
\* returning b if it is called, and the wake a Pending future owes left to
\* another thread if `later`.
PollStep(b, later) ==
    /\ stack # <<>>
    /\ Top.pc \in {"poll", "inpoll"}
    /\ LET r == Poll(Top.future, b)
       IN  IF r.ret.ready
           THEN ~later /\ Return(Top, r)
           ELSE Suspend(Top, r, later)
    /\ handed' = TRUE

BlockOnPoll == \E b \in BOOLEAN, later \in BOOLEAN : PollStep(b, later)

\* A loop that does not wait in park(): it goes on to the next poll
\* whether the token is there or not.
BlockOnPark_NoWait ==
    /\ stack # <<>>
    /\ Top.pc = "park"
    /\ parkers' = [parkers EXCEPT ![Top.parker] = "EMPTY"]
    /\ stack' = SetTop([Top EXCEPT !.pc = "poll"])
    /\ stale' = (stale /\ Top.parker # CachedParker)
    /\ UNCHANGED <<borrowed, owed, last, handed>>

\* parker.park() is called, lines 92 and 106.
BlockOnPark ==
    /\ stack # <<>>
    /\ Top.pc = "park"
    /\ LET k == park(parkers[Top.parker])
       IN  /\ parkers' = [parkers EXCEPT ![Top.parker] = k.state]
           /\ stack' = SetTop([Top EXCEPT !.pc = IF k.blocks THEN "parked" ELSE "poll"])
           /\ stale' = (stale /\ (k.blocks \/ Top.parker # CachedParker))
    /\ UNCHANGED <<borrowed, owed, last, handed>>

\* A loop that calls park() again when park() returns, without polling.
BlockOnUnparked_ParkAgain ==
    /\ stack # <<>>
    /\ Top.pc = "parked"
    /\ parkers[Top.parker] = "NOTIFIED"
    /\ parkers' = [parkers EXCEPT ![Top.parker] = "EMPTY"]
    /\ stack' = SetTop([Top EXCEPT !.pc = "park"])
    /\ stale' = (stale /\ Top.parker # CachedParker)
    /\ UNCHANGED <<borrowed, owed, last, handed>>

\* The thread blocked in park() finds the token, takes it and returns.
BlockOnUnparked ==
    /\ stack # <<>>
    /\ Top.pc = "parked"
    /\ parkers[Top.parker] = "NOTIFIED"
    /\ parkers' = [parkers EXCEPT ![Top.parker] = "EMPTY"]
    /\ stack' = SetTop([Top EXCEPT !.pc = "poll"])
    /\ stale' = (stale /\ Top.parker # CachedParker)
    /\ UNCHANGED <<borrowed, owed, last, handed>>

\* `stale` after a wake call on the waker of parker p: a call made with no
\* block_on call running leaves a token that no call's future asked for; a
\* call made while one is running leaves the token that call waits for.
StaleAfter(p) ==
    IF p # CachedParker THEN stale
    ELSE IF stack # <<>> THEN FALSE
    ELSE stale \/ parkers[p] # "NOTIFIED"

\* Another thread calls wake on a waker a future gave it.
Wake(p) ==
    /\ owed[p]
    /\ owed' = [owed EXCEPT ![p] = FALSE]
    /\ parkers' = waker(parkers, p)
    /\ stale' = StaleAfter(p)
    /\ UNCHANGED <<stack, borrowed, last, handed>>

\* The parkers that exist and whose waker a poll has handed out.
Live ==
    {p \in {CachedParker} : handed}
    \cup {stack[i].parker : i \in {j \in 1..Len(stack) : stack[j].pc # "poll"
                                                        \/ stack[j].polls > 0}}

\* Another thread calls wake on a waker it cloned in an earlier poll, any
\* number of times.
StaleWake ==
    /\ \E p \in Live :
          /\ parkers[p] # "NOTIFIED"
          /\ parkers' = waker(parkers, p)
          /\ stale' = StaleAfter(p)
    /\ UNCHANGED <<stack, borrowed, owed, last, handed>>

\* -------------------------------------------------------- specifications

Init == CombInit /\ BlockOnInit /\ wk = NoWakes

Next ==
    \/ (PollPollOnce /\ UNCHANGED <<bvars, wk>>)
    \/ (PollYieldNow /\ UNCHANGED <<bvars, wk>>)
    \/ (PollTryZip /\ UNCHANGED <<bvars, wk>>)
    \/ (PollRace /\ UNCHANGED <<bvars, wk>>)
    \/ (PollOr /\ UNCHANGED <<bvars, wk>>)
    \/ (PollZip /\ UNCHANGED <<bvars, wk>>)

Spec == Init /\ [][Next]_vars

BlockOnStart ==
    /\ comb = yield_now /\ prev = comb /\ ret = Pending /\ order = <<>>
    /\ wakes = 0 /\ npolls = 0 /\ nwakes = 0
    /\ BlockOnInit
    /\ wk = NoWakes

BlockOnNext ==
    \/ (CallTop(Computations) /\ UNCHANGED uncounted)
    \/ (BlockOnPoll /\ UNCHANGED uncounted)
    \/ (BlockOnPark /\ UNCHANGED uncounted)
    \/ (BlockOnUnparked /\ UNCHANGED uncounted)
    \/ (\E p \in ParkerIds : Wake(p) /\ UNCHANGED uncounted)
    \/ (StaleWake /\ UNCHANGED uncounted)

SpecBlockOn == BlockOnStart /\ [][BlockOnNext]_vars

\* A step of the thread inside block_on: at most one of the three is
\* enabled at a time.
Thread == BlockOnPoll \/ BlockOnPark \/ BlockOnUnparked

\* The thread runs, and the threads that hold a waker they owe a wake do
\* not all stop.
Fairness ==
    /\ WF_vars(Thread /\ UNCHANGED uncounted)
    /\ WF_vars((\E p \in ParkerIds : Wake(p)) /\ UNCHANGED uncounted)

FairSpecBlockOn == SpecBlockOn /\ Fairness

\* block_on called by futures that block_on is polling, and with
\* yield_now() at either depth.
NestedNext ==
    \/ (CallTop(Outer \cup {yield_now}) /\ UNCHANGED uncounted)
    \/ (CallNested /\ UNCHANGED uncounted)
    \/ (BlockOnPoll /\ UNCHANGED uncounted)
    \/ (BlockOnPark /\ UNCHANGED uncounted)
    \/ (BlockOnUnparked /\ UNCHANGED uncounted)
    \/ (\E p \in ParkerIds : Wake(p) /\ UNCHANGED uncounted)
    \/ (StaleWake /\ UNCHANGED uncounted)

SpecNested == BlockOnStart /\ [][NestedNext]_vars

FairSpecNested == SpecNested /\ Fairness

\* block_on called from outside any future, with the wake calls made on
\* the waker of the running call counted in wk.
Counted(n) ==
    IF stack # <<>> THEN [wk EXCEPT !.since = @ + n, !.total = @ + n] ELSE wk

TokenTaken == [wk EXCEPT !.since = 0, !.taken = @ + 1]

OnEntry ==
    LET t == IF parkers[CachedParker] = "NOTIFIED" THEN 1 ELSE 0
    IN  [since |-> t, total |-> t, taken |-> 0]

CountNext ==
    \/ (CallTop(Computations) /\ wk' = OnEntry /\ UNCHANGED cvars)
    \/ (\E b \in BOOLEAN, later \in BOOLEAN :
           /\ PollStep(b, later)
           /\ wk' = (LET r == Poll(Top.future, b)
                     IN  IF r.ret.ready THEN wk
                         ELSE Counted(WakesInside(Top, r, later)))
           /\ UNCHANGED cvars)
    \/ (BlockOnPark
           /\ wk' = (IF park(parkers[Top.parker]).blocks THEN wk ELSE TokenTaken)
           /\ UNCHANGED cvars)
    \/ (BlockOnUnparked /\ wk' = TokenTaken /\ UNCHANGED cvars)
    \/ (\E p \in ParkerIds : Wake(p) /\ wk' = Counted(1) /\ UNCHANGED cvars)
    \/ (StaleWake /\ wk' = Counted(1) /\ UNCHANGED cvars)

SpecCount == BlockOnStart /\ [][CountNext]_vars

\* ------------------------------------------------- claims on combinators

\* Child i of the two-child combinator c.
Child(c, i) == IF i = 1 THEN c.future1 ELSE c.future2

\* Child i returned Ready in the latest poll() call of the combinator.
CompletedNow(i) == Child(comb, i).done /\ ~Child(prev, i).done

\* Child i would return Ready if it were polled in state c.
ReadyIn(c, i) ==
    ~Child(c, i).never /\ ~Child(c, i).done /\ Child(c, i).left = 0

AfterPoll(k) == comb.kind = k /\ npolls > 0

\* C4: in every poll of a TryZip, a child that completes with an error in
\* that call makes the TryZip return Ready(Err(that error)) from the same
\* call, whatever the other child's slot holds; and when it is the left
\* child, the right child is not polled in that call.  In particular
\* try_zip(Ok(1), Err(2)) resolves to Err(2).
C4_ErrorShortCircuit ==
    AfterPoll("TryZip") =>
        /\ \A i \in {1, 2} :
              (CompletedNow(i) /\ ~Child(comb, i).out.ok) =>
                  /\ ret.ready
                  /\ ~ret.val.ok
                  /\ ret.val.v = Child(comb, i).out.v
        /\ (CompletedNow(1) /\ ~comb.future1.out.ok) => order = <<1>>
        /\ prev = try_zip(ready(Ok(1)), ready(Err(2))) =>
              ret.ready /\ ~ret.val.ok /\ ret.val.v = 2

\* The right child fails in a poll after the one that stored the left
\* child's success.
C4_Witness ==
    /\ AfterPoll("TryZip")
    /\ is_some(prev.output1)
    /\ order = <<2>>
    /\ CompletedNow(2)
    /\ ret.ready
    /\ ~ret.val.ok

\* A child that completes with a success value.
Succeeds(f) == ~f.never /\ f.out.ok

\* C5: a TryZip whose children both complete with success values t1 and t2
\* returns Pending from every poll before both have completed and
\* Ready(Ok((t1, t2))), the left value first, from the poll in which the
\* second of them completes; and a TryZip returns Ok only when both
\* children have completed with success values.
C5_Success ==
    AfterPoll("TryZip") =>
        /\ (Succeeds(comb.future1) /\ Succeeds(comb.future2)) =>
              /\ ret.ready <=> (comb.future1.done /\ comb.future2.done)
              /\ ret.ready =>
                    /\ ret.val.ok
                    /\ ret.val.v = <<comb.future1.out.v, comb.future2.out.v>>
                    /\ CompletedNow(1) \/ CompletedNow(2)
        /\ (ret.ready /\ ret.val.ok) =>
              /\ comb.future1.done /\ Succeeds(comb.future1)
              /\ comb.future2.done /\ Succeeds(comb.future2)

\* The right child succeeded in an earlier poll than the left one, with a
\* different value.
C5_Witness ==
    /\ AfterPoll("TryZip")
    /\ ret.ready
    /\ ret.val.ok
    /\ comb.future2.polls < comb.future1.polls
    /\ ret.val.v[1] # ret.val.v[2]

\* C6: a YieldNow is polled twice: the first poll sets the flag, calls the
\* context's waker once and returns Pending; the second returns Ready(())
\* and calls no waker; so one YieldNow makes exactly one wake call.
C6_YieldNowLifecycle ==
    comb.kind = "YieldNow" =>
        /\ npolls <= 2
        /\ npolls = 0 => (~comb.fired /\ nwakes = 0)
        /\ npolls = 1 =>
              (~prev.fired /\ comb.fired /\ ~ret.ready /\ wakes = 1 /\ nwakes = 1)
        /\ npolls = 2 =>
              (ret.ready /\ ret.val = Unit /\ wakes = 0 /\ nwakes = 1)

C6_Witness == comb.kind = "YieldNow" /\ npolls = 2 /\ ret.ready /\ nwakes = 1

\* C7: the first poll of a PollOnce returns Ready: Ready(Some(v)) when the
\* child returned Ready(v) in it and Ready(None) when the child returned
\* Pending; it never returns Pending.  poll_once(pending()) is None and
\* poll_once(ready(42)) is Some(42).
C7_PollOnceCompletes ==
    AfterPoll("PollOnce") =>
        /\ npolls = 1
        /\ ret.ready
        /\ order = <<1>>
        /\ comb.f.done => (is_some(ret.val) /\ ret.val.v = comb.f.out)
        /\ ~comb.f.done => is_none(ret.val)
        /\ prev = poll_once(pending) => is_none(ret.val)
        /\ prev = poll_once(ready(42)) => (is_some(ret.val) /\ ret.val.v = 42)

\* The child was polled, returned Pending and will complete later.
C7_Witness ==
    /\ AfterPoll("PollOnce")
    /\ ~comb.f.never
    /\ comb.f.polls = 1
    /\ ~comb.f.done
    /\ is_none(ret.val)

\* C8: every poll of self.or(other) polls the left child first; if it is
\* ready its value is returned and the right child is not polled;
\* otherwise the right child is polled and its value returned if it is
\* ready, else Pending.  ready(1).or(ready(2)) is 1.
C8_OrLeftBiased ==
    AfterPoll("Or") =>
        /\ Head(order) = 1
        /\ CompletedNow(1) =>
              (order = <<1>> /\ ret.ready /\ ret.val = comb.future1.out)
        /\ ~CompletedNow(1) =>
              /\ order = <<1, 2>>
              /\ CompletedNow(2) => (ret.ready /\ ret.val = comb.future2.out)
              /\ ~CompletedNow(2) => ~ret.ready
        /\ prev = or(ready(1), ready(2)) =>
              (ret.ready /\ ret.val = 1 /\ comb.future2.polls = 0)

\* Both children were ready in the same poll and the left one won.
C8_Witness ==
    /\ AfterPoll("Or")
    /\ ReadyIn(prev, 1)
    /\ ReadyIn(prev, 2)
    /\ prev.future1.out # prev.future2.out
    /\ ret.ready
    /\ ret.val = prev.future1.out
    /\ order = <<1>>

\* C9: a Race of a ready child and a child that never completes returns
\* the ready child's value from its first poll, in either polling order:
\* race(ready(1), pending()) is 1 and race(pending(), ready(2)) is 2.
C9_RaceReadyAgainstNever ==
    (AfterPoll("Race") /\ npolls = 1) =>
        \A v \in Vals :
            /\ prev = race(ready(v), pending) => (ret.ready /\ ret.val = v)
            /\ prev = race(pending, ready(v)) => (ret.ready /\ ret.val = v)

\* The child that never completes was polled first.
C9_Witness ==
    /\ AfterPoll("Race")
    /\ prev = race(pending, ready(2))
    /\ order = <<1, 2>>
    /\ ret.ready
    /\ ret.val = 2

\* The Race can be polled now and child i is the first one that poll polls.
CanPollFirst(i) ==
    ENABLED (PollRace /\ Head(order') = i /\ UNCHANGED <<bvars, wk>>)

\* The Race can be polled now and that poll returns Ready(v).
CanReturn(v) ==
    ENABLED (PollRace /\ ret'.ready /\ ret'.val = v /\ UNCHANGED <<bvars, wk>>)

\* C10: every poll of a Race may take either order; the child polled first
\* in a call, if ready, has its value returned and the other child is not
\* polled in that call; so with both children ready in the same poll the
\* value is that of the child polled first, and either child's value can
\* be the result.
C10_RaceNoPreference ==
    /\ CanPoll("Race") =>
          /\ CanPollFirst(1) /\ CanPollFirst(2)
          /\ (ReadyIn(comb, 1) /\ ReadyIn(comb, 2)) =>
                (CanReturn(comb.future1.out) /\ CanReturn(comb.future2.out))
    /\ AfterPoll("Race") =>
          /\ CompletedNow(Head(order)) =>
                /\ order = <<Head(order)>>
                /\ ret.ready
                /\ ret.val = Child(comb, Head(order)).out
          /\ (ReadyIn(prev, 1) /\ ReadyIn(prev, 2)) =>
                (ret.ready /\ ret.val = Child(comb, Head(order)).out)

\* Both children were ready in a poll after the first, and the right one
\* was polled first and won.
C10_Witness ==
    /\ AfterPoll("Race")
    /\ npolls > 1
    /\ ReadyIn(prev, 1)
    /\ ReadyIn(prev, 2)
    /\ order = <<2>>
    /\ ret.ready
    /\ ret.val = prev.future2.out
    /\ prev.future1.out # prev.future2.out

\* The children a poll of a Zip or TryZip in state c reaches with an empty
\* slot, left then right.
EmptySlots(c) ==
    (IF is_none(c.output1) THEN <<1>> ELSE <<>>)
    \o (IF is_none(c.output2) THEN <<2>> ELSE <<>>)

\* The slot of child i of the Zip or TryZip c.
Slot(c, i) == IF i = 1 THEN c.output1 ELSE c.output2

\* C11: every poll of a Zip polls exactly the children whose slot is
\* empty, left then right, and never a child whose slot is filled; it
\* returns Pending until both children have completed and then the pair
\* with the left child's value first, whichever child completed first.
\* zip(ready(1), ready(2)) is (1, 2).
C11_ZipBothSlots ==
    AfterPoll("Zip") =>
        /\ order = EmptySlots(prev)
        /\ \A i \in {1, 2} :
              /\ is_some(Slot(prev, i)) =>
                    /\ Child(comb, i) = Child(prev, i)
                    /\ ~ret.ready => Slot(comb, i) = Slot(prev, i)
              /\ ~Child(comb, i).repolled
              /\ (is_some(Slot(comb, i)) /\ ~ret.ready) =>
                    (Child(comb, i).done /\ Slot(comb, i).v = Child(comb, i).out)
        /\ ret.ready <=> (comb.future1.done /\ comb.future2.done)
        /\ ret.ready => ret.val = <<comb.future1.out, comb.future2.out>>
        /\ prev = zip(ready(1), ready(2)) => (ret.ready /\ ret.val = <<1, 2>>)

\* The right child completed in an earlier poll than the left one, with a
\* different value, and the pair has the left value first.
C11_Witness ==
    /\ AfterPoll("Zip")
    /\ ret.ready
    /\ is_some(prev.output2)
    /\ order = <<1>>
    /\ comb.future2.polls < comb.future1.polls
    /\ ret.val = <<1, 2>>

\* Child i of the TryZip c would return Ready(Err(_)) if it were polled.
FailsIn(c, i) == ReadyIn(c, i) /\ ~Child(c, i).out.ok

\* C14: a poll of a TryZip in which both children would complete with an
\* error returns the left child's error, the child polled first, and does
\* not poll the right child.  try_zip(Err(1), Err(2)) resolves to Err(1)
\* with the right child never polled.
C14_BothFail ==
    AfterPoll("TryZip") =>
        /\ (FailsIn(prev, 1) /\ FailsIn(prev, 2) /\ is_none(prev.output1)) =>
              /\ ret = Ready(Err(prev.future1.out.v))
              /\ order = <<1>>
              /\ comb.future2 = prev.future2
        /\ prev = try_zip(ready(Err(1)), ready(Err(2))) =>
              /\ ret = Ready(Err(1))
              /\ comb.future2.polls = 0

\* Both children failed with different errors in the same poll, after a
\* poll in which both were Pending.
C14_Witness ==
    /\ AfterPoll("TryZip")
    /\ npolls > 1
    /\ FailsIn(prev, 1)
    /\ FailsIn(prev, 2)
    /\ prev.future1.out # prev.future2.out
    /\ ret = Ready(Err(prev.future1.out.v))
    /\ comb.future2.polls = npolls - 1

LeftFailedNow == CompletedNow(1) /\ ~comb.future1.out.ok

\* C17: up to and including the poll in which a TryZip returns Ready, a
\* child that has returned Ready(Ok) has its slot filled and is polled in
\* no later poll of the TryZip, no child is polled after it has
\* completed, and a child whose slot is empty is polled in every poll
\* that reaches it: the left one always, the right one unless the left
\* one has just failed.
C17_TryZipNoRepoll ==
    AfterPoll("TryZip") =>
        /\ \A i \in {1, 2} :
              /\ ~Child(comb, i).repolled
              /\ is_some(Slot(prev, i)) => Child(comb, i) = Child(prev, i)
              /\ (Child(comb, i).done /\ Child(comb, i).out.ok /\ ~ret.ready) =>
                    Slot(comb, i) = Some(Child(comb, i).out)
              /\ (is_some(Slot(comb, i)) /\ ~ret.ready) => Child(comb, i).done
        /\ is_none(prev.output1) =>
              (Head(order) = 1 /\ comb.future1.polls = prev.future1.polls + 1)
        /\ (is_none(prev.output2) /\ ~LeftFailedNow) =>
              /\ order[Len(order)] = 2
              /\ comb.future2.polls = prev.future2.polls + 1
        /\ order = IF LeftFailedNow THEN <<1>> ELSE EmptySlots(prev)

\* The right child's success was stored by an earlier poll, and the latest
\* poll polled the left child alone, which was Pending again.
C17_Witness ==
    /\ AfterPoll("TryZip")
    /\ npolls >= 2
    /\ is_some(prev.output2)
    /\ order = <<1>>
    /\ ~ret.ready
    /\ comb.future2.polls < comb.future1.polls

\* The slot of child i was filled by the latest poll of the TryZip.
FilledNow(i) == is_none(Slot(prev, i)) /\ is_some(Slot(comb, i))

\* C20: each slot of a TryZip is empty or holds a success, never an
\* error, so the final unwrap never reaches unreachable!(); a slot that is
\* filled holds the Ready(Ok) result of its own child, and is filled by
\* the poll in which that child returned it.
C20_SlotsHoldOk ==
    comb.kind = "TryZip" =>
        /\ \A i \in {1, 2} :
              /\ is_some(Slot(comb, i)) =>
                    /\ Slot(comb, i).v.ok
                    /\ Child(comb, i).done
                    /\ Slot(comb, i).v = Child(comb, i).out
              /\ (npolls > 0 /\ FilledNow(i)) =>
                    (CompletedNow(i) /\ Child(comb, i).out.ok)
        /\ npolls = 0 => (is_none(comb.output1) /\ is_none(comb.output2))
        /\ ret # Unreachable

\* The left child's success is in its slot while the right child, which
\* will fail, is still Pending.
C20_Witness ==
    /\ AfterPoll("TryZip")
    /\ is_some(comb.output1)
    /\ comb.output1.v = Ok(1)
    /\ is_none(comb.output2)
    /\ ~comb.future2.never
    /\ ~comb.future2.out.ok
    /\ ~ret.ready

\* --------------------------------------------------- claims on block_on

\* The values a future can complete with.
ValuesOf(fut) ==
    CASE fut.kind = "Leaf" -> {fut.out}
      [] fut.kind = "YieldNow" -> {Unit}
      [] fut.kind = "Race" -> {fut.future1.out, fut.future2.out}

\* The latest return of block_on gave a value of the future it was called
\* with.
ReturnedItsValue == last.depth > 0 => last.val \in ValuesOf(last.future)

\* The thread calls park() with the token there.
ParksOnToken ==
    /\ stack # <<>>
    /\ Top.pc = "park"
    /\ parkers[Top.parker] = "NOTIFIED"
    /\ stack' # stack

\* C1: block_on called with a future that completes after finitely many
\* polls and has a wake follow every Pending (made inside the poll or by
\* another thread, before or after the thread parks) returns, and returns
\* the future's value; and a park() called with a wake already made
\* returns at once, to the next poll.
C1_NoLostWakeup ==
    /\ (stack # <<>>) ~> (stack = <<>>)
    /\ []ReturnedItsValue
    /\ [][ParksOnToken =>
            /\ stack'[Len(stack')].pc = "poll"
            /\ parkers'[Top.parker] = "EMPTY"]_vars

\* block_on has returned the value of a future that was Pending at least
\* once.
C1_Witness ==
    /\ stack = <<>>
    /\ last.depth = 1
    /\ last.future.kind = "Leaf"
    /\ last.polls >= 2
    /\ last.val = last.future.out

\* C2: with block_on called inside the poll of a future that block_on is
\* polling on the same thread, each call returns: the inner one with its
\* future's value, leaving the outer call inside its poll, and then the
\* outer one with its future's value.
C2_NestedTerminates ==
    /\ \A d \in 1..MaxDepth : (Len(stack) >= d) ~> (Len(stack) < d)
    /\ []ReturnedItsValue
    /\ [][(Len(stack') < Len(stack) /\ Len(stack) > 1) =>
            /\ stack' = SubSeq(stack, 1, Len(stack) - 1)
            /\ stack'[Len(stack')].pc = "inpoll"
            /\ last'.depth = Len(stack)]_vars

\* The inner call, whose future was Pending once, has returned into the
\* poll of the outer call.
C2_Witness ==
    /\ Len(stack) = 1
    /\ Top.pc = "inpoll"
    /\ last.depth = 2
    /\ last.polls >= 2
    /\ last.val \in ValuesOf(last.future)

\* block_on is polling a Race of two children that both complete.
RaceRunning ==
    /\ stack # <<>>
    /\ stack[1].future.kind = "Race"
    /\ ~stack[1].future.future1.never
    /\ ~stack[1].future.future2.never

\* block_on has returned from a Race with the output of the one child that
\* has completed, and no child was polled after it completed.
RaceReturnedOne ==
    (last.depth = 1 /\ last.future.kind = "Race") =>
        LET f == last.future
        IN  /\ f.future1.done # f.future2.done
            /\ last.val = (IF f.future1.done THEN f.future1.out ELSE f.future2.out)
            /\ ~f.future1.repolled
            /\ ~f.future2.repolled

\* C3: a Race of two children that both complete, driven by block_on,
\* completes under every sequence of polling orders, with the value of
\* exactly one of the children.
C3_RaceTerminates ==
    /\ RaceRunning ~> (stack = <<>>)
    /\ []RaceReturnedOne

\* The Race returned the right child's value after both children had been
\* Pending.
C3_Witness ==
    /\ stack = <<>>
    /\ last.depth = 1
    /\ last.future.kind = "Race"
    /\ last.polls >= 2
    /\ last.future.future2.done
    /\ last.val = 2

\* The call that is running is between two polls (its latest poll returned
\* Pending), a wake call has left the token of its parker, and the call has
\* made n polls.
WokenAfter(n) ==
    /\ stack # <<>>
    /\ Top.pc \in {"park", "parked"}
    /\ parkers[Top.parker] = "NOTIFIED"
    /\ Top.polls = n

\* The running call has made more than n polls, or has returned (which it
\* does from a poll only).
PolledAfter(n) == stack = <<>> \/ Top.polls > n

\* A step takes the token of the running call's parker.
TakesToken ==
    /\ stack # <<>>
    /\ Len(stack') = Len(stack)
    /\ parkers[Top.parker] = "NOTIFIED"
    /\ parkers'[Top.parker] # "NOTIFIED"

\* C12: a wake call made on the waker of a running block_on call whose
\* future is Pending is followed by a poll of the future: at once when the
\* thread has not parked yet (park() finds the token), and after the
\* thread is unparked otherwise; the token is taken by no step other than
\* the return of park() to the next poll.
C12_WakeThenPoll ==
    /\ \A n \in 0..(MaxPending + 1) : WokenAfter(n) ~> PolledAfter(n)
    /\ [][TakesToken =>
            /\ Top.pc \in {"park", "parked"}
            /\ stack'[Len(stack')].pc = "poll"
            /\ stack'[Len(stack')].polls = Top.polls]_vars

\* A wake call made after a Pending has been taken by park(), no other
\* wake is owed, and the thread is about to poll the future again.
C12_Witness ==
    /\ stack # <<>>
    /\ Top.pc = "poll"
    /\ Top.polls >= 1
    /\ parkers[Top.parker] = "EMPTY"
    /\ ~owed[Top.parker]

\* C13: a wake call made through the cached waker after the block_on call
\* that handed it out has returned changes nothing a later call on the
\* thread sees: no later call's park() finds a token left by such a wake,
\* so a later call parks and polls as if the wake had not been made.
C13_StaleWakeNoOp ==
    ~(/\ stale
      /\ stack # <<>>
      /\ Top.parker = CachedParker
      /\ Top.pc = "park"
      /\ parkers[CachedParker] = "NOTIFIED")

\* The running calls that use parker p.
UsersOf(p) == {i \in 1..Len(stack) : stack[i].parker = p}

\* No two running calls share a parker, and only the outermost call uses
\* the parker and waker of CACHE.
NoAliasing ==
    /\ \A p \in ParkerIds : Cardinality(UsersOf(p)) <= 1
    /\ \A i \in 1..Len(stack) :
          /\ stack[i].cached <=> (i = 1)
          /\ (stack[i].parker = CachedParker) <=> (i = 1)
    /\ borrowed <=> (stack # <<>>)

\* A call entered while another one is running gets a new parker.
FreshWhenNested ==
    (Len(stack') > Len(stack) /\ stack # <<>>) =>
        LET p == stack'[Len(stack')].parker
        IN  /\ UsersOf(p) = {}
            /\ p # CachedParker
            /\ parkers'[p] = ParkerNew
            /\ \A q \in ParkerIds \ {p} : parkers'[q] = parkers[q]

\* The token of the parker of a running call is taken by no step other
\* than a park() of that call, the innermost one, returning to its poll.
OwnTokenOnly ==
    \A i \in 1..Len(stack) :
        (/\ Len(stack') >= i
         /\ parkers[stack[i].parker] = "NOTIFIED"
         /\ parkers'[stack[i].parker] # "NOTIFIED") =>
            /\ i = Len(stack)
            /\ Len(stack') = Len(stack)
            /\ stack[i].pc \in {"park", "parked"}
            /\ stack'[i].pc = "poll"

\* A wake call on the waker of one running call does nothing to the parker
\* of another, and unparks no other call.
OwnWakeOnly ==
    \A i \in 1..Len(stack), j \in 1..Len(stack) :
        (/\ i # j
         /\ Len(stack') = Len(stack)
         /\ parkers[stack[j].parker] # "NOTIFIED"
         /\ parkers'[stack[j].parker] = "NOTIFIED") =>
            /\ parkers'[stack[i].parker] = parkers[stack[i].parker]
            /\ stack'[i].pc = "parked" <=> stack[i].pc = "parked"

\* C15: no two running block_on calls of the thread share a parker and
\* waker: only the outermost uses the pair of CACHE and a call entered
\* inside a poll gets a new pair.  So a token left on the outer call's
\* parker while the inner call runs is not taken by the inner call's
\* park() and is there when the outer loop parks next, and a wake on the
\* inner call's waker leaves the outer call's parker as it was.
C15_NoAliasing ==
    /\ []NoAliasing
    /\ [][FreshWhenNested /\ OwnTokenOnly /\ OwnWakeOnly]_vars

\* The outer call's waker was called while the inner call was running, and
\* the inner call is blocked in park() all the same.
C15_Witness ==
    /\ Len(stack) = 2
    /\ parkers[stack[1].parker] = "NOTIFIED"
    /\ Top.pc = "parked"
    /\ parkers[Top.parker] = "PARKED"

\* The innermost running call is driving a YieldNow.
DrivesYieldNow == stack # <<>> /\ Top.future.kind = "YieldNow"

\* A call driving a YieldNow is never blocked in park(): when it calls
\* park(), after the first poll, the token of its parker is there.
YieldNowNeverBlocks ==
    DrivesYieldNow =>
        /\ Top.pc # "parked"
        /\ Top.pc = "park" => (Top.polls = 1 /\ parkers[Top.parker] = "NOTIFIED")
        /\ Top.polls <= 1

\* block_on has returned from a YieldNow after two polls of it.
YieldNowTwoPolls ==
    (last.depth > 0 /\ last.future.kind = "YieldNow") =>
        (last.polls = 2 /\ last.val = Unit)

\* C18: block_on(yield_now()) returns after exactly two polls of the
\* YieldNow and the thread is never blocked in park(): the wake call made
\* inside the first poll leaves the token, so the park() after it returns
\* at once.  The same holds for a nested call, on its new parker.
C18_YieldNowProgress ==
    /\ \A d \in 1..MaxDepth :
          (Len(stack) >= d /\ stack[d].future.kind = "YieldNow") ~> (Len(stack) < d)
    /\ []YieldNowNeverBlocks
    /\ []YieldNowTwoPolls
    /\ [][(DrivesYieldNow /\ Top.pc = "park" /\ stack' # stack) =>
            (stack' = SetTop([Top EXCEPT !.pc = "poll"]))]_vars

\* A nested block_on(yield_now()) has returned into the poll of the outer
\* call, which used its own new parker.
C18_Witness ==
    /\ Len(stack) = 1
    /\ Top.pc = "inpoll"
    /\ last.depth = 2
    /\ last.future.kind = "YieldNow"
    /\ last.polls = 2

\* The polls the running call has made: its first, and one for each token
\* it has taken and polled after.
PollsMade == wk.taken + (IF Top.pc = "poll" THEN 0 ELSE 1)

\* C19: the wake calls made on a call's waker since the call last took
\* the token, however many, leave the one token of its parker, which gives
\* the call one more poll: a call has made one poll and one more for each
\* token it took, each token taken stands for at least one wake call of
\* its own, and so the polls of a call are at most one more than the wake
\* calls delivered to its parker (a token found on entry counting as the
\* wake call that left it).
C19_WakesCoalesce ==
    /\ stack # <<>> =>
          /\ (parkers[Top.parker] = "NOTIFIED") <=> (wk.since >= 1)
          /\ Top.polls = PollsMade
          /\ wk.taken + (IF wk.since >= 1 THEN 1 ELSE 0) <= wk.total
          /\ Top.polls <= 1 + wk.total
    /\ last.depth = 1 =>
          /\ last.polls = wk.taken + 1
          /\ last.polls <= 1 + wk.total

\* Two wake calls made between two polls gave the call one more poll, and
\* after that poll the thread is blocked in park().
C19_Witness ==
    /\ stack # <<>>
    /\ Top.pc = "parked"
    /\ parkers[Top.parker] = "PARKED"
    /\ Top.polls = 2
    /\ wk.taken = 1
    /\ wk.total = 2
    /\ wk.since = 0

====
